---- MODULE Spec2Model ----
(***************************************************************************)
(* A model of the protoscan scanning engine (src/unnamed/part_000): the    *)
(* Protoscan struct, Scan, Err, advance, hint, setErr, and the split       *)
(* functions ScanBytes, ScanLines and the tests' commaSplit.               *)
(*                                                                         *)
(* A Scan call is modelled as the sequence of its interactions with the    *)
(* two collaborators: ScanBegin (the entry of Scan), SplitStep (one call   *)
(* of the split function and everything Scan does with its verdict up to   *)
(* the resize of the buffer) and ReadStep (one iteration of the read       *)
(* loop).  pc is the position of the caller: "idle" between calls,         *)
(* "split" before a call of the split function, "read" inside the read     *)
(* loop, "panic" after a run-time panic.                                   *)
(***************************************************************************)
EXTENDS Integers, Sequences, FiniteSets, TLC

\* ---------------------------------------------------------------- bounds
MaxInput == 3          \* longest input given to a reference split function
MaxCustomInput == 2    \* longest input given to a client's split function
\* with a client's split function or an arbitrary reader the tokens need not
\* come from the input: no Scan call once out holds this many of them
MaxOut == 2
MaxScanners == 2
MaxArrays == 2
MaxCap == 2
\* 1000 in the source; scaled down so that the ceiling is crossed within the
\* explored runs
maxConsecutiveIdling == 3

\* ------------------------------------------------------------- constants
maxBufferDefault == 65536
maxInt == 2147483647

\* bytes of the input alphabet: '\n', ',' and 'a'
Bytes == {10, 44, 97}

\* error values
Nil == "nil"
EOF == "io.EOF"
FinalToken == "FinalToken"
ErrTooLong == "ErrTooLong"
ErrNegativeAdvance == "ErrNegativeAdvance"
ErrAdvanceTooFar == "ErrAdvanceTooFar"
ErrBadReadCount == "ErrBadReadCount"
ErrNegativeHint == "ErrNegativeHint"
ErrNoProgress == "ErrNoProgress"
IoErrNoProgress == "io.ErrNoProgress"
IoErrUnexpectedEOF == "io.ErrUnexpectedEOF"
testError == "testError"

\* a token is nil (NilTok) or a byte slice (Tok(bytes))
NilTok == <<>>
Tok(b) == <<b>>

Min(a, b) == IF a < b THEN a ELSE b

\* a + b in the machine's int: wraps around past maxInt
AddInt(a, b) ==
  IF a > 0 /\ b > maxInt - a THEN (a - maxInt - 1) + (b - maxInt - 1) ELSE a + b

VARIABLES
  reader,     \* kind of the io.Reader given to New
  text,       \* the whole input behind the reader
  input,      \* bytes of text the reader has not handed out yet
  split,      \* the split function given to New
  buffer, maxBuffer, token, err, start, end, empties,   \* fields of Protoscan
  pc, claim,  \* position inside Scan, and Scan's local claim
  op, ret,    \* the last public method called and what it returned
  verdict,    \* the atEOF flag and the results of the last call of the split function
  lastRead,   \* the size of the region and the results of the last call of Read
  eofSeen,    \* a call of Read has returned io.EOF
  initLen,    \* the length of the buffer New was given, 0 without WithBuffer
  Tokens, Indexes, Gaps,   \* fields of the Protoscan of src/protoscan.go
  out,        \* the tokens of the Scan calls that returned true before the first false
  stopped,    \* a Scan call has returned false
  heap,       \* the backing arrays of the buffers of several scanners
  live,       \* the buffer field of each of these scanners
  pool        \* the scanners whose &s.buffer is in the package's sync.Pool

oneScanner == <<reader, text, input, split, buffer, maxBuffer, token, err, start, end,
                empties, pc, claim, op, ret, verdict, lastRead, eofSeen, initLen, out, stopped>>

poolVars == <<heap, live, pool>>

appendVars == <<Tokens, Indexes, Gaps>>

vars == <<oneScanner, poolVars, appendVars>>

scanner == <<buffer, maxBuffer, token, err, start, end, empties>>

\* ------------------------------------------------------------ Protoscan

\* Err with a bug: FinalToken is not translated
ErrFinalTokenShown(e) == IF e = EOF THEN Nil ELSE e

\* Err: the sticky error with io.EOF and FinalToken translated to nil
Err(e) == IF e = EOF \/ e = FinalToken THEN Nil ELSE e

\* setErr with a bug: io.EOF is kept like any other error
setErrKeepsEOF(cur, e) == IF cur = Nil THEN e ELSE cur

\* setErr with a bug: the last error wins
setErrLastWins(cur, e) == e

\* setErr: the slot after setErr(e) when it holds cur
setErr(cur, e) == IF cur = Nil \/ cur = EOF THEN e ELSE cur

\* advance with a bug: the bytes up to the end of the window cannot be consumed
advanceOffByOne(st, en, n) ==
  IF n < 0 THEN ErrNegativeAdvance
  ELSE IF n > 0 /\ AddInt(st, n) >= en THEN ErrAdvanceTooFar
  ELSE Nil

\* advance: the error of moving the carriage n bytes, Nil when legal
advance(st, en, n) ==
  IF n < 0 THEN ErrNegativeAdvance
  ELSE IF AddInt(st, n) > en THEN ErrAdvanceTooFar
  ELSE Nil

\* the test of the idle counter with a bug: two idle rounds too many
idlingLate(emp) == emp > maxConsecutiveIdling + 2

\* s.empties > maxConsecutiveIdling: too many idle rounds in a row
idling(emp) == emp > maxConsecutiveIdling

\* the test of the count of a read with a bug: a count of 0 is refused
badReadCountOrZero(n, room) == n <= 0 \/ room < n

\* n < 0 || len(s.buffer)-s.end < n: the count of a read is impossible
badReadCount(n, room) == n < 0 \/ room < n

\* the test for a token with a bug: an empty token is taken for no token
deliversNonEmpty(tok, adv) == tok # NilTok /\ tok # Tok(<<>>) /\ adv > 0

\* token != nil && advance > 0: the verdict carries a token to deliver
delivers(tok, adv) == tok # NilTok /\ adv > 0

\* hint with a bug: the sign of the hint is not tested
hintUnsigned(en, max, n) ==
  IF AddInt(en, n) > max \/ AddInt(en, n) > maxInt THEN ErrTooLong ELSE Nil

\* hint with a bug: a claim of one byte more than the cap passes
hintPastCap(en, max, n) ==
  IF n < 0 THEN ErrNegativeHint
  ELSE IF AddInt(en, n) > max + 1 \/ AddInt(en, n) > maxInt THEN ErrTooLong
  ELSE Nil

\* hint: the error of a hint of n bytes, Nil when legal
hint(en, max, n) ==
  IF n < 0 THEN ErrNegativeHint
  ELSE IF AddInt(en, n) > max \/ AddInt(en, n) > maxInt THEN ErrTooLong
  ELSE Nil

\* the test of the slot with a bug: Scan goes on to read whatever the slot holds
stopsNever(e) == FALSE

\* the test of the slot before the shift and the read, if s.err != nil
stops(e) == e # Nil

\* the test of the slot of src/protoscan.go with a bug: the slot is not tested
slotSetNever(e) == FALSE

\* the test of the slot of src/protoscan.go, right after the split function's
\* error is handled: if s.err != nil
slotSet(e) == e # Nil

\* the condition of the read loop with a bug: a read also for an empty region
refillAlways(en, cl) == en <= cl

\* the condition of the read loop, for s.end < claim
refill(en, cl) == en < cl

\* the condition of the shift with a bug: only a full buffer is shifted
NeedShiftWhenFull(st, en, len) == st > 0 /\ en = len

\* the condition of the shift of the data to the beginning of the buffer
NeedShift(st, en, len) == st > 0 /\ (en = len \/ st > len \div 2)

\* the shift with a bug: start and end are moved, the bytes are not
ShiftNoCopy(buf, st, en) == buf

\* copy(s.buffer, s.buffer[s.start:s.end])
Shift(buf, st, en) ==
  [i \in 1..Len(buf) |-> IF i <= en - st THEN buf[st + i] ELSE buf[i]]

\* append(s.buffer, make([]byte, claim-len(s.buffer))...)
Grow(buf, c) == buf \o [i \in 1..(c - Len(buf)) |-> 0]

\* ------------------------------------------------------ split functions

Verdict(h, a, t, e) == [hint |-> h, advance |-> a, token |-> t, err |-> e]

\* bytes.IndexByte: the 1-based index of the first c in data, 0 when absent
IndexByte(data, c) ==
  IF \E i \in 1..Len(data) : data[i] = c
  THEN CHOOSE i \in 1..Len(data) : data[i] = c /\ \A j \in 1..(i - 1) : data[j] # c
  ELSE 0

keepCR(data) == data

dropCR(data) ==
  IF Len(data) > 0 /\ data[Len(data)] = 13 THEN SubSeq(data, 1, Len(data) - 1) ELSE data

ScanBytes(data, atEOF) ==
  IF Len(data) > 0 THEN Verdict(0, 1, Tok(SubSeq(data, 1, 1)), Nil)
  ELSE IF atEOF THEN Verdict(0, 0, NilTok, Nil)
  ELSE Verdict(1, 0, NilTok, Nil)

ScanLines(data, atEOF) ==
  IF atEOF /\ Len(data) = 0 THEN Verdict(0, 0, NilTok, Nil)
  ELSE IF IndexByte(data, 10) > 0
       THEN Verdict(0, IndexByte(data, 10),
                    Tok(dropCR(SubSeq(data, 1, IndexByte(data, 10) - 1))), Nil)
  ELSE IF atEOF THEN Verdict(0, Len(data), Tok(dropCR(data)), Nil)
  ELSE Verdict(1, 0, NilTok, Nil)

\* utf8.DecodeRune for the sequences of one and two bytes: the rune at the
\* head of p and its width in bytes; a byte that starts no such sequence is
\* the RuneError of width 1.  (The texts hold no byte from 224 up, the first
\* byte of a longer sequence.)
RuneError == 65533

DecodeRune(p) ==
  IF p = <<>> THEN [r |-> RuneError, width |-> 0]
  ELSE IF p[1] < 128 THEN [r |-> p[1], width |-> 1]
  ELSE IF p[1] \in 194..223 /\ Len(p) >= 2 /\ p[2] \in 128..191
       THEN [r |-> (p[1] - 192) * 64 + (p[2] - 128), width |-> 2]
  ELSE [r |-> RuneError, width |-> 1]

isSpaceASCII(r) == r \in {32} \cup 9..13

isSpace(r) ==
  IF r <= 255 THEN r \in {32, 9, 10, 11, 12, 13} \/ r \in {133, 160}
  ELSE IF 8192 <= r /\ r <= 8202 THEN TRUE
  ELSE r \in {5760, 8232, 8233, 8239, 8287, 12288}

\* the first loop of ScanWords: the offset behind the leading spaces
RECURSIVE skipSpaces(_, _)
skipSpaces(data, st) ==
  IF st < Len(data)
  THEN LET d == DecodeRune(SubSeq(data, st + 1, Len(data)))
       IN IF ~isSpace(d.r) THEN st ELSE skipSpaces(data, st + d.width)
  ELSE st

\* the second loop of ScanWords: the offset and the width of the first space
\* from offset i on, if there is one
RECURSIVE wordEnd(_, _)
wordEnd(data, i) ==
  IF i < Len(data)
  THEN LET d == DecodeRune(SubSeq(data, i + 1, Len(data)))
       IN IF isSpace(d.r) THEN [found |-> TRUE, i |-> i, width |-> d.width]
          ELSE wordEnd(data, i + d.width)
  ELSE [found |-> FALSE, i |-> i, width |-> 0]

ScanWords(data, atEOF) ==
  LET st == skipSpaces(data, 0)
      e == wordEnd(data, st)
  IN IF e.found THEN Verdict(0, e.i + e.width, Tok(SubSeq(data, st + 1, e.i)), Nil)
     ELSE IF atEOF /\ Len(data) > st
          THEN Verdict(0, Len(data), Tok(SubSeq(data, st + 1, Len(data))), Nil)
     ELSE Verdict(1, 0, NilTok, Nil)

commaSplit(data, atEOF) ==
  IF IndexByte(data, 44) > 0
  THEN Verdict(0, IndexByte(data, 44), Tok(SubSeq(data, 1, IndexByte(data, 44) - 1)), Nil)
  ELSE IF atEOF /\ Len(data) > 0 THEN Verdict(0, Len(data), Tok(data), FinalToken)
  ELSE IF atEOF THEN Verdict(0, 0, NilTok, Nil)
  ELSE Verdict(1, 0, NilTok, Nil)

\* a split function supplied by the client: any hint and advance, a token or
\* none, an error or none (the hint and advance that come with an error are
\* read by nobody, so two pairs of them are enough)
CustomHints == {-1, 0, 1, 2, maxInt}
CustomAdvances == {-1, 0, 1, maxInt}
CustomErrs == {FinalToken, testError, EOF}

customSplit(data, atEOF) ==
  LET toks == {NilTok, Tok(SubSeq(data, 1, Min(Len(data), 1)))} IN
  { Verdict(h, a, t, Nil) : h \in CustomHints, a \in CustomAdvances, t \in toks }
  \cup { Verdict(x, x, t, e) : x \in {0, 1}, t \in toks, e \in CustomErrs }

\* a client's split function that asks for more than one byte: ScanLines with
\* a hint of 2
lineSplit2(data, atEOF) ==
  IF ScanLines(data, atEOF).hint > 0
  THEN Verdict(2, 0, NilTok, Nil)
  ELSE ScanLines(data, atEOF)

\* a client's split function that asks for 2 bytes and delivers whatever the
\* window holds as one token
windowSplit(data, atEOF) ==
  IF Len(data) > 0 THEN Verdict(0, Len(data), Tok(data), Nil)
  ELSE IF atEOF THEN Verdict(0, 0, NilTok, Nil)
  ELSE Verdict(2, 0, NilTok, Nil)

\* the verdicts the split function sp can return for (data, atEOF)
Split(sp, data, atEOF) ==
  CASE sp = "ScanBytes" -> {ScanBytes(data, atEOF)}
    [] sp = "ScanLines" -> {ScanLines(data, atEOF)}
    [] sp = "ScanWords" -> {ScanWords(data, atEOF)}
    [] sp = "commaSplit" -> {commaSplit(data, atEOF)}
    [] sp = "lineSplit2" -> {lineSplit2(data, atEOF)}
    [] sp = "windowSplit" -> {windowSplit(data, atEOF)}
    [] OTHER -> customSplit(data, atEOF)

\* ------------------------------------------------------------- readers

ReadResult(n, e, d) == [n |-> n, err |-> e, data |-> d]

\* strings.Reader, directly or behind the tests' slowReader: some bytes of
\* the input, at most k of them, or (0, io.EOF) once the input is exhausted
stringsRead(in, k) ==
  IF in = <<>> THEN {ReadResult(0, EOF, <<>>)}
  ELSE {ReadResult(m, Nil, SubSeq(in, 1, m)) : m \in 1..Min(k, Len(in))}

\* any io.Reader, also one that breaks the contract (the tests' alwaysError,
\* endlessZeros, negativeEOFReader, largeReader): it writes some of the
\* input's next bytes into the k bytes it is given and reports their number,
\* or reports -1 or k + 1, with any error
anyRead(in, k) ==
  {ReadResult(n, e, SubSeq(in, 1, Min(n, Min(k, Len(in))))) :
     n \in (-1)..Min(k, Len(in)) \cup {k + 1}, e \in {Nil, EOF, IoErrUnexpectedEOF}}

\* the tests' slowReader{1, strings.NewReader(in)}: one byte for each Read
slowReader(in, k) == stringsRead(in, Min(k, 1))

\* the tests' endlessZeros: no byte and no error, for ever
endlessZeros(in, k) == {ReadResult(0, Nil, <<>>)}

Read(rd, in, k) ==
  CASE rd = "strings" -> stringsRead(in, k)
    [] rd = "slowReader" -> slowReader(in, k)
    [] rd = "endlessZeros" -> endlessZeros(in, k)
    [] OTHER -> anyRead(in, k)

\* ---------------------------------------------------------------- New

Readers == {"strings", "any"}
Splits == {"ScanBytes", "ScanLines", "commaSplit", "custom"}
\* WithMaxBuffer: 0 when the option is not given
MaxBuffers == {0, 2}
\* the length of the buffer: 0, or that of the buffer given to WithBuffer
\* (longer than the cap of WithMaxBuffer)
BufferLens == {0, 3}

RECURSIVE SeqsOf(_, _)
SeqsOf(S, n) ==
  IF n = 0 THEN {<<>>}
  ELSE SeqsOf(S, n - 1) \cup {Append(q, b) : q \in {x \in SeqsOf(S, n - 1) : Len(x) = n - 1}, b \in S}

\* "1,2,3," of TestEmptyTokens
CommaText == <<49, 44, 50, 44, 51, 44>>

\* the blank lines of TestBlankLines: more of them than the idle ceiling
BlankLines == [i \in 1..(maxConsecutiveIdling + 1) |-> 10]

Inputs == SeqsOf(Bytes, MaxInput) \cup {CommaText, BlankLines}

NoVerdict ==
  [atEOF |-> FALSE, hint |-> 0, advance |-> 0, token |-> NilTok, err |-> "none"]

NoRead == [len |-> 0, n |-> 0, err |-> "none"]

\* the scanners of the program that share the pool; a scanner that New has
\* not returned yet
Scanners == 1..MaxScanners

NotMade == [made |-> FALSE, arr |-> 0, len |-> 0, end |-> 0, over |-> FALSE]

New(rd, in, sp, max, len) ==
  /\ reader = rd
  /\ text = in
  /\ input = in
  /\ split = sp
  /\ buffer = [i \in 1..len |-> 0]
  /\ maxBuffer = max
  /\ token = NilTok
  /\ err = Nil
  /\ start = 0
  /\ end = 0
  /\ empties = 0
  /\ pc = "idle"
  /\ claim = 0
  /\ op = "New"
  /\ ret = "none"
  /\ verdict = NoVerdict
  /\ lastRead = NoRead
  /\ eofSeen = FALSE
  /\ initLen = len
  /\ Tokens = <<>>
  /\ Indexes = <<>>
  /\ Gaps = <<>>
  /\ out = <<>>
  /\ stopped = FALSE
  /\ heap = <<>>
  /\ live = [i \in Scanners |-> NotMade]
  /\ pool = {}

\* the reference split functions over every input; a client's split function
\* does not look at the bytes, so one byte value is enough for it
InitRef ==
  \E rd \in Readers, in \in Inputs, sp \in Splits \ {"custom"},
     max \in MaxBuffers, len \in BufferLens :
    New(rd, in, sp, max, len)

InitCustom ==
  \E rd \in Readers, in \in SeqsOf({97}, MaxCustomInput), max \in MaxBuffers, len \in BufferLens :
    New(rd, in, "custom", max, len)

\* the deterministic split functions of a client, which ask for 2 bytes, with
\* a reader that hands out the input in chunks and with the slowReader
DetSplits == {"lineSplit2", "windowSplit"}

InitDet ==
  \E rd \in {"strings", "slowReader"}, in \in SeqsOf(Bytes, MaxInput), sp \in DetSplits,
     max \in MaxBuffers, len \in BufferLens :
    New(rd, in, sp, max, len)

\* TestBadReader: a reader that never makes progress, with a split function
\* that asks for more on an empty window
InitZeros ==
  \E sp \in (Splits \ {"custom"}) \cup DetSplits, max \in MaxBuffers, len \in BufferLens :
    New("endlessZeros", <<>>, sp, max, len)

Init == InitRef \/ InitCustom \/ InitDet \/ InitZeros

\* ---------------------------------------------------------------- Scan

\* Scan returns b
Return(b) ==
  /\ pc' = "idle"
  /\ claim' = 0
  /\ ret' = IF b THEN "true" ELSE "false"
  /\ out' = IF b /\ ~stopped THEN Append(out, token') ELSE out
  /\ stopped' = (stopped \/ ~b)

\* the entry of Scan: the default of maxBuffer and the test for FinalToken
ScanBegin ==
  /\ pc = "idle"
  /\ (split = "custom" \/ reader = "any") => Len(out) < MaxOut
  /\ empties <= maxConsecutiveIdling + 1
  /\ op' = "Scan"
  /\ maxBuffer' = IF maxBuffer = 0 THEN maxBufferDefault ELSE maxBuffer
  /\ verdict' = NoVerdict
  /\ lastRead' = NoRead
  /\ IF err = FinalToken
     THEN /\ pc' = "idle"
          /\ ret' = "false"
          /\ stopped' = TRUE
     ELSE /\ pc' = "split"
          /\ ret' = "none"
          /\ UNCHANGED stopped
  /\ UNCHANGED <<reader, text, input, split, buffer, token, err, start, end, empties, claim, out>>
  /\ UNCHANGED <<eofSeen, initLen>>
  /\ UNCHANGED <<poolVars, appendVars>>

\* what Scan does with the verdict v of the split function
Handle(v) ==
  LET aerr == advance(start, end, v.advance)
      st1 == AddInt(start, v.advance)
      emp1 == IF v.advance > 0 THEN 0 ELSE empties + 1
      shift == NeedShift(st1, end, Len(buffer))
      buf2 == IF shift THEN Shift(buffer, st1, end) ELSE buffer
      en2 == IF shift THEN end - st1 ELSE end
      st2 == IF shift THEN 0 ELSE st1
      herr == hint(en2, maxBuffer, v.hint)
      cl == AddInt(en2, v.hint)
  IN
  /\ token' = v.token
  /\ IF v.err # Nil
     THEN /\ err' = setErr(err, v.err)
          /\ Return(v.err = FinalToken)
          /\ UNCHANGED <<buffer, start, end, empties>>
     ELSE IF aerr # Nil
     THEN /\ err' = setErr(err, aerr)
          /\ Return(FALSE)
          /\ UNCHANGED <<buffer, start, end, empties>>
     ELSE IF delivers(v.token, v.advance)
     THEN /\ start' = st1
          /\ empties' = 0
          /\ Return(TRUE)
          /\ UNCHANGED <<buffer, end, err>>
     ELSE IF idling(emp1)
     THEN /\ start' = st1
          /\ empties' = emp1
          /\ err' = setErr(err, ErrNoProgress)
          /\ Return(FALSE)
          /\ UNCHANGED <<buffer, end>>
     ELSE IF stops(err)
     THEN /\ start' = st1
          /\ empties' = emp1
          /\ Return(FALSE)
          /\ UNCHANGED <<buffer, end, err>>
     ELSE IF herr # Nil
     THEN /\ buffer' = buf2
          /\ start' = st2
          /\ end' = en2
          /\ empties' = emp1
          /\ err' = setErr(err, herr)
          /\ Return(FALSE)
     ELSE /\ buffer' = IF Len(buf2) < cl THEN Grow(buf2, cl) ELSE buf2
          /\ start' = st2
          /\ end' = en2
          /\ empties' = emp1
          /\ claim' = IF refill(en2, cl) THEN cl ELSE 0
          /\ pc' = IF refill(en2, cl) THEN "read" ELSE "split"
          /\ UNCHANGED <<err, ret, out, stopped>>

\* one call of the split function, and what Scan does up to the read loop
SplitStep ==
  /\ pc = "split"
  /\ IF start < 0 \/ start > end
     THEN /\ pc' = "panic"
          /\ UNCHANGED <<buffer, token, err, start, end, empties, claim, ret, verdict, out, stopped>>
     ELSE \E v \in Split(split, SubSeq(buffer, start + 1, end), err = EOF) :
            /\ verdict' = [atEOF |-> (err = EOF), hint |-> v.hint, advance |-> v.advance,
                           token |-> v.token, err |-> v.err]
            /\ Handle(v)
  /\ UNCHANGED <<reader, text, input, split, maxBuffer, op, lastRead, eofSeen, initLen>>
  /\ UNCHANGED <<poolVars, appendVars>>

\* one iteration of the read loop
ReadStep ==
  /\ pc = "read"
  /\ \E r \in Read(reader, input, claim - end) :
       LET w == Len(r.data) IN
       /\ lastRead' = [len |-> claim - end, n |-> r.n, err |-> r.err]
       /\ eofSeen' = (eofSeen \/ r.err = EOF)
       /\ input' = SubSeq(input, w + 1, Len(input))
       /\ buffer' = [i \in 1..Len(buffer) |->
                       IF end < i /\ i <= end + w THEN r.data[i - end] ELSE buffer[i]]
       /\ IF badReadCount(r.n, Len(buffer) - end)
          THEN /\ err' = setErr(err, ErrBadReadCount)
               /\ pc' = "split"
               /\ claim' = 0
               /\ UNCHANGED <<end, empties>>
          ELSE IF r.err # Nil
          THEN /\ end' = end + r.n
               /\ err' = setErr(err, r.err)
               /\ pc' = "split"
               /\ claim' = 0
               /\ UNCHANGED empties
          ELSE IF r.n > 0
          THEN /\ end' = end + r.n
               /\ empties' = 0
               /\ pc' = "split"
               /\ claim' = 0
               /\ UNCHANGED err
          ELSE IF idling(empties + 1)
          THEN /\ empties' = empties + 1
               /\ err' = setErr(err, IoErrNoProgress)
               /\ pc' = "split"
               /\ claim' = 0
               /\ UNCHANGED end
          ELSE /\ empties' = empties + 1
               /\ UNCHANGED <<end, err, pc, claim>>
  /\ UNCHANGED <<reader, text, split, maxBuffer, token, start, op, ret, verdict, initLen, out, stopped>>
  /\ UNCHANGED <<poolVars, appendVars>>

\* a call of Err between two Scan calls
ErrCall ==
  /\ pc = "idle"
  /\ op' = "Err"
  /\ ret' = Err(err)
  /\ UNCHANGED <<reader, text, input, split, buffer, maxBuffer, token, err, start, end,
                 empties, pc, claim, verdict, lastRead, eofSeen, initLen, out, stopped>>
  /\ UNCHANGED <<poolVars, appendVars>>

Next == ScanBegin \/ SplitStep \/ ReadStep \/ ErrCall

Spec == Init /\ [][Next]_vars

SpecRef == InitRef /\ [][Next]_vars

SpecCustom == InitCustom /\ [][Next]_vars

SpecDet == InitDet /\ [][Next]_vars

\* a Scan call runs to its return: the steps inside Scan are not postponed
\* for ever
Fairness == WF_vars(SplitStep) /\ WF_vars(ReadStep)

SpecZeros == InitZeros /\ [][Next]_vars /\ Fairness

\* a client's split function with the readers that end: a finite input and
\* then io.EOF for ever, or no byte and no error for ever
EndingReaders == {"strings", "slowReader", "endlessZeros"}

InitLive ==
  \E rd \in EndingReaders, in \in SeqsOf({97}, MaxCustomInput), max \in MaxBuffers :
    New(rd, in, "custom", max, 0)

SpecLive == InitLive /\ [][Next]_vars /\ Fairness

\* ScanLines over the texts of newlines, carriage returns and a letter, with
\* a reader that hands out the input in chunks and with the slowReader
LineBytes == {10, 13, 97}

InitLines ==
  \E rd \in {"strings", "slowReader"}, in \in SeqsOf(LineBytes, MaxInput), len \in BufferLens :
    New(rd, in, "ScanLines", 0, len)

SpecLines == InitLines /\ [][Next]_vars

\* ScanWords over the texts of a space, a letter and the two bytes of the
\* no-break space U+00A0
WordBytes == {32, 97, 194, 160}

InitWords ==
  \E rd \in {"strings", "slowReader"}, in \in SeqsOf(WordBytes, MaxInput), len \in BufferLens :
    New(rd, in, "ScanWords", 0, len)

SpecWords == InitWords /\ [][Next]_vars

\* ----------------------------------------------------------------- pool
\* Several scanners made by New and driven by Scan, seen only through their
\* buffers.  Each scanner reads from its own reader, which yields the
\* scanner's number as every byte, and its split function consumes nothing:
\* it asks for one more byte or returns an error.

Cap(i) == IF live[i].arr = 0 THEN 0 ELSE Len(heap[live[i].arr])

\* New: the buffer is the slice behind the pointer that pool.Get returns, cut
\* to length 0.  Get hands out a pointer that was Put, or the pointer to a
\* fresh empty slice of the pool's New.
PoolNew(i) ==
  /\ ~live[i].made
  /\ \E p \in pool \cup {0} :
       /\ live' = [live EXCEPT ![i] = [made |-> TRUE,
                                        arr |-> IF p = 0 THEN 0 ELSE live[p].arr,
                                        len |-> 0, end |-> 0, over |-> FALSE]]
       /\ pool' = pool \ {p}
  /\ UNCHANGED heap
  /\ UNCHANGED <<oneScanner, appendVars>>

\* Scan with a full buffer and a hint of 1: &s.buffer is Put, then append
\* lengthens the buffer, in place when the capacity allows and in a new array
\* otherwise
PoolGrow(i) ==
  /\ live[i].made /\ ~live[i].over
  /\ live[i].end = live[i].len
  /\ live[i].len < MaxCap
  /\ pool' = pool \cup {i}
  /\ LET n == live[i].len + 1
     IN IF n <= Cap(i)
        THEN /\ heap' = [heap EXCEPT ![live[i].arr] = [@ EXCEPT ![n] = 0]]
             /\ live' = [live EXCEPT ![i].len = n]
        ELSE /\ Len(heap) < MaxArrays
             /\ \E c \in n..MaxCap :
                  heap' = Append(heap, [k \in 1..c |->
                                          IF k < n THEN heap[live[i].arr][k] ELSE 0])
             /\ live' = [live EXCEPT ![i].len = n, ![i].arr = Len(heap) + 1]
  /\ UNCHANGED <<oneScanner, appendVars>>

\* Scan's read into buffer[end:len]
PoolRead(i) ==
  /\ live[i].made /\ ~live[i].over
  /\ live[i].end < live[i].len
  /\ heap' = [heap EXCEPT ![live[i].arr] = [@ EXCEPT ![live[i].end + 1] = i]]
  /\ live' = [live EXCEPT ![i].end = live[i].end + 1]
  /\ UNCHANGED pool
  /\ UNCHANGED <<oneScanner, appendVars>>

\* Scan whose split function returns an error: &s.buffer is Put and the
\* scanning is over
PoolStop(i) ==
  /\ live[i].made /\ ~live[i].over
  /\ pool' = pool \cup {i}
  /\ live' = [live EXCEPT ![i].over = TRUE]
  /\ UNCHANGED heap
  /\ UNCHANGED <<oneScanner, appendVars>>

InitPool == New("strings", <<>>, "ScanBytes", 0, 0)

NewAny == \E i \in Scanners : PoolNew(i)

GrowAny == \E i \in Scanners : PoolGrow(i)

ReadAny == \E i \in Scanners : PoolRead(i)

StopAny == \E i \in Scanners : PoolStop(i)

NextPool == NewAny \/ GrowAny \/ ReadAny \/ StopAny

SpecPool == InitPool /\ [][NextPool]_vars

\* --------------------------------------------------------- append style
\* The Protoscan of src/protoscan.go: the split function appends the tokens
\* it finds to Tokens, their lengths to Indexes and skipped bytes to Gaps, and
\* returns a hint, an advance and an error.  The scanner is a struct literal
\* with the fields Reader, Split, Buffer and MaxBuffer; the fields it shares
\* with the Protoscan of New are held by the same variables.

Appended(h, a, e, toks, idx, gaps) ==
  [hint |-> h, advance |-> a, err |-> e, tokens |-> toks, indexes |-> idx, gaps |-> gaps]

ScanBytesAppend(data, atEOF) ==
  IF Len(data) > 0 THEN Appended(0, 1, Nil, SubSeq(data, 1, 1), <<1>>, <<>>)
  ELSE IF atEOF THEN Appended(0, 0, Nil, <<>>, <<>>, <<>>)
  ELSE Appended(1, 0, Nil, <<>>, <<>>, <<>>)

\* without a newline in data the rest of data is appended before atEOF is
\* tested, also when more data is requested
ScanLinesAppend(data, atEOF) ==
  IF atEOF /\ Len(data) = 0 THEN Appended(0, 0, Nil, <<>>, <<>>, <<>>)
  ELSE IF IndexByte(data, 10) > 0
       THEN LET line == dropCR(SubSeq(data, 1, IndexByte(data, 10) - 1))
            IN Appended(0, IndexByte(data, 10), Nil, line, <<Len(line)>>, <<>>)
  ELSE IF atEOF THEN Appended(0, Len(data), Nil, dropCR(data), <<Len(dropCR(data))>>, <<>>)
  ELSE Appended(1, 0, Nil, dropCR(data), <<Len(dropCR(data))>>, <<>>)

ScanWordsAppend(data, atEOF) ==
  LET st == skipSpaces(data, 0)
      e == wordEnd(data, st)
  IN IF e.found
     THEN Appended(0, e.i + e.width, Nil, SubSeq(data, st + 1, e.i), <<e.i - st>>, <<>>)
     ELSE IF atEOF /\ Len(data) > st
          THEN Appended(0, Len(data), Nil, SubSeq(data, st + 1, Len(data)),
                        <<Len(data) - st>>, <<>>)
     ELSE Appended(1, 0, Nil, <<>>, <<>>, <<>>)

\* any split function of a client: it appends nothing, or the first byte of
\* the window as a token, or copies that byte to the gaps, and returns any
\* hint and advance, or an error
customAppend(data, atEOF) ==
  LET b == SubSeq(data, 1, Min(Len(data), 1))
      toks == {<<<<>>, <<>>, <<>>>>, <<b, <<Len(b)>>, <<>>>>, <<<<>>, <<>>, b>>}
  IN { Appended(h, a, Nil, t[1], t[2], t[3]) :
         h \in CustomHints, a \in CustomAdvances, t \in toks }
     \cup { Appended(x, x, e, t[1], t[2], t[3]) : x \in {0, 1}, t \in toks, e \in CustomErrs }

SplitAppend(sp, data, atEOF) ==
  CASE sp = "ScanBytes" -> {ScanBytesAppend(data, atEOF)}
    [] sp = "ScanLines" -> {ScanLinesAppend(data, atEOF)}
    [] sp = "ScanWords" -> {ScanWordsAppend(data, atEOF)}
    [] OTHER -> customAppend(data, atEOF)

\* return b from Scan; out collects what the client finds in Tokens after
\* each true up to the first false
AppendReturn(b) ==
  /\ pc' = "idle"
  /\ claim' = 0
  /\ ret' = IF b THEN "true" ELSE "false"
  /\ out' = IF b /\ ~stopped THEN Append(out, Tokens') ELSE out
  /\ stopped' = (stopped \/ ~b)

\* the entry of Scan: the default of MaxBuffer and the test for FinalToken
AppendScanBegin ==
  /\ pc = "idle"
  /\ (split = "custom" \/ reader = "any") => Len(out) < MaxOut
  /\ empties <= maxConsecutiveIdling + 1
  /\ op' = "Scan"
  /\ maxBuffer' = IF maxBuffer = 0 THEN maxBufferDefault ELSE maxBuffer
  /\ verdict' = NoVerdict
  /\ lastRead' = NoRead
  /\ IF err = FinalToken
     THEN /\ pc' = "idle"
          /\ ret' = "false"
          /\ stopped' = TRUE
     ELSE /\ pc' = "split"
          /\ ret' = "none"
          /\ UNCHANGED stopped
  /\ UNCHANGED <<reader, text, input, split, buffer, token, err, start, end, empties, claim, out>>
  /\ UNCHANGED <<eofSeen, initLen>>
  /\ UNCHANGED <<poolVars, appendVars>>

\* what Scan does with the returns v of the split function
AppendHandle(v) ==
  LET aerr == advance(start, end, v.advance)
      st1 == AddInt(start, v.advance)
      emp1 == IF v.advance > 0 THEN 0 ELSE empties + 1
      shift == NeedShift(st1, end, Len(buffer))
      buf2 == IF shift THEN Shift(buffer, st1, end) ELSE buffer
      en2 == IF shift THEN end - st1 ELSE end
      st2 == IF shift THEN 0 ELSE st1
      herr == hint(en2, maxBuffer, v.hint)
      cl == AddInt(en2, v.hint)
  IN
  IF v.err # Nil
  THEN /\ err' = setErr(err, v.err)
       /\ AppendReturn(v.err = FinalToken)
       /\ UNCHANGED <<buffer, start, end, empties>>
  ELSE IF slotSet(err)
  THEN /\ AppendReturn(FALSE)
       /\ UNCHANGED <<buffer, start, end, empties, err>>
  ELSE IF aerr # Nil
  THEN /\ err' = setErr(err, aerr)
       /\ AppendReturn(FALSE)
       /\ UNCHANGED <<buffer, start, end, empties>>
  ELSE IF Len(v.indexes) # 0 /\ v.advance > 0
  THEN /\ start' = st1
       /\ empties' = 0
       /\ AppendReturn(TRUE)
       /\ UNCHANGED <<buffer, end, err>>
  ELSE IF idling(emp1)
  THEN /\ start' = st1
       /\ empties' = emp1
       /\ err' = setErr(err, ErrNoProgress)
       /\ AppendReturn(FALSE)
       /\ UNCHANGED <<buffer, end>>
  ELSE IF herr # Nil
  THEN /\ buffer' = buf2
       /\ start' = st2
       /\ end' = en2
       /\ empties' = emp1
       /\ err' = setErr(err, herr)
       /\ AppendReturn(FALSE)
  ELSE /\ buffer' = IF Len(buf2) < cl THEN Grow(buf2, cl) ELSE buf2
       /\ start' = st2
       /\ end' = en2
       /\ empties' = emp1
       /\ claim' = IF refill(en2, cl) THEN cl ELSE 0
       /\ pc' = IF refill(en2, cl) THEN "read" ELSE "split"
       /\ UNCHANGED <<err, ret, out, stopped>>

\* one round of Scan's loop up to the read loop: Tokens, Indexes and Gaps are
\* cut to length 0, the split function appends to them, and Scan handles what
\* it returns
AppendSplitStep ==
  /\ pc = "split"
  /\ IF start < 0 \/ start > end
     THEN /\ pc' = "panic"
          /\ Tokens' = <<>> /\ Indexes' = <<>> /\ Gaps' = <<>>
          /\ UNCHANGED <<buffer, err, start, end, empties, claim, ret, verdict, out, stopped>>
     ELSE \E v \in SplitAppend(split, SubSeq(buffer, start + 1, end), err = EOF) :
            /\ verdict' = [atEOF |-> (err = EOF), hint |-> v.hint, advance |-> v.advance,
                           token |-> NilTok, err |-> v.err]
            /\ Tokens' = v.tokens
            /\ Indexes' = v.indexes
            /\ Gaps' = v.gaps
            /\ AppendHandle(v)
  /\ UNCHANGED <<reader, text, input, split, maxBuffer, token, op, lastRead, eofSeen, initLen>>
  /\ UNCHANGED poolVars

\* one iteration of the read loop
AppendReadStep ==
  /\ pc = "read"
  /\ \E r \in Read(reader, input, claim - end) :
       LET w == Len(r.data) IN
       /\ lastRead' = [len |-> claim - end, n |-> r.n, err |-> r.err]
       /\ eofSeen' = (eofSeen \/ r.err = EOF)
       /\ input' = SubSeq(input, w + 1, Len(input))
       /\ buffer' = [i \in 1..Len(buffer) |->
                       IF end < i /\ i <= end + w THEN r.data[i - end] ELSE buffer[i]]
       /\ IF badReadCount(r.n, Len(buffer) - end)
          THEN /\ err' = setErr(err, ErrBadReadCount)
               /\ pc' = "split"
               /\ claim' = 0
               /\ UNCHANGED <<end, empties>>
          ELSE IF r.err # Nil
          THEN /\ end' = end + r.n
               /\ err' = setErr(err, r.err)
               /\ pc' = "split"
               /\ claim' = 0
               /\ UNCHANGED empties
          ELSE IF r.n > 0
          THEN /\ end' = end + r.n
               /\ empties' = 0
               /\ pc' = "split"
               /\ claim' = 0
               /\ UNCHANGED err
          ELSE IF idling(empties + 1)
          THEN /\ empties' = empties + 1
               /\ err' = setErr(err, IoErrNoProgress)
               /\ pc' = "split"
               /\ claim' = 0
               /\ UNCHANGED end
          ELSE /\ empties' = empties + 1
               /\ UNCHANGED <<end, err, pc, claim>>
  /\ UNCHANGED <<reader, text, split, maxBuffer, token, start, op, ret, verdict, initLen, out, stopped>>
  /\ UNCHANGED <<poolVars, appendVars>>

\* a call of Err between two Scan calls
AppendErrCall ==
  /\ pc = "idle"
  /\ op' = "Err"
  /\ ret' = Err(err)
  /\ UNCHANGED <<reader, text, input, split, buffer, maxBuffer, token, err, start, end,
                 empties, pc, claim, verdict, lastRead, eofSeen, initLen, out, stopped>>
  /\ UNCHANGED <<poolVars, appendVars>>

AppendSplits == {"ScanBytes", "ScanLines", "ScanWords", "custom"}

\* the bytes of the texts: a newline, a space and a letter
AppendBytes == {10, 32, 97}

\* protoscan.Protoscan{Reader: r, Split: sp, Buffer: ..., MaxBuffer: max}
InitAppendRef ==
  \E rd \in Readers \cup {"slowReader"}, in \in SeqsOf(AppendBytes, MaxInput),
     sp \in AppendSplits \ {"custom"}, max \in MaxBuffers, len \in BufferLens :
    New(rd, in, sp, max, len)

InitAppendCustom ==
  \E in \in SeqsOf({97}, MaxCustomInput), max \in MaxBuffers, len \in BufferLens :
    New("strings", in, "custom", max, len)

InitAppend == InitAppendRef \/ InitAppendCustom

NextAppend == AppendScanBegin \/ AppendSplitStep \/ AppendReadStep \/ AppendErrCall

SpecAppend == InitAppend /\ [][NextAppend]_vars

\* ------------------------------------------------------------ properties

\* a Scan call returns in this step
ScanReturns == pc' = "idle" /\ (pc = "split" \/ (pc = "idle" /\ op' = "Scan"))

\* the verdict of the split function sp when it sees all of data at once
Whole(sp, data) ==
  LET v == CHOOSE x \in Split(sp, data, FALSE) : TRUE
  IN IF v.err = Nil /\ v.advance = 0 THEN CHOOSE x \in Split(sp, data, TRUE) : TRUE ELSE v

\* the tokens into which the reference split function sp partitions data
RECURSIVE Partition(_, _)
Partition(sp, data) ==
  LET v == Whole(sp, data)
  IN IF v.err # Nil THEN <<v.token>>
     ELSE IF v.advance = 0 THEN <<>>
     ELSE (IF v.token # NilTok THEN <<v.token>> ELSE <<>>)
          \o Partition(sp, SubSeq(data, v.advance + 1, Len(data)))

C2_FalseForever == [][(stopped /\ ScanReturns) => ret' = "false"]_vars

\* C3: after Scan has returned false once, a Scan call returns at once, without
\* a call of the split function or a read, and leaves buffer, start, end, err,
\* empties and token unchanged.
C3_NoOpAfterFalse ==
  [][(stopped /\ pc = "idle" /\ op' = "Scan")
     => (pc' = "idle" /\ UNCHANGED <<buffer, start, end, err, empties, token>>)]_vars

\* C4: once err holds a genuine error (not nil, io.EOF or FinalToken), no Scan
\* call returns true.
C4_NoTokenAfterError ==
  [][(err \notin {Nil, EOF, FinalToken} /\ ScanReturns) => ret' = "false"]_vars

\* C5: err is written only while it is nil or io.EOF; once it holds another
\* value no step changes it.
C5_FirstWriteWins == [][err \notin {Nil, EOF} => err' = err]_vars

\* setErr was called with FinalToken while err held a genuine error
C5_Witness ==
  /\ err \notin {Nil, EOF, FinalToken}
  /\ pc = "idle" /\ op = "Scan"
  /\ verdict.err = FinalToken

\* C6: Err() returns nil exactly when err is nil, io.EOF or FinalToken, and
\* err itself otherwise; the call changes no field of the scanner.
C6_ErrAccessor ==
  /\ [](op = "Err" => /\ ret = Nil <=> err \in {Nil, EOF, FinalToken}
                      /\ ret # Nil => ret = err)
  /\ [][(pc = "idle" /\ op' = "Err") => UNCHANGED scanner]_vars

C6_Witness == op = "Err" /\ err = FinalToken /\ ret = Nil /\ stopped

\* C7: when the split function returns FinalToken with a token, that Scan call
\* returns true with this token and Err() is nil, and the next Scan call
\* returns false at once.
C7_FinalToken ==
  /\ []((pc = "idle" /\ op = "Scan" /\ verdict.err = FinalToken /\ verdict.token # NilTok)
        => (ret = "true" /\ token = verdict.token /\ Err(err) = Nil))
  /\ [][(pc = "idle" /\ verdict.err = FinalToken /\ verdict.token # NilTok /\ op' = "Scan")
        => (pc' = "idle" /\ ret' = "false")]_vars

\* C8: when the split function, called with atEOF, returns hint 0, advance 0
\* and no token, Scan returns false with Err() nil; "1,2,3," with commaSplit
\* delivers "1", "2", "3" and nothing else.
C8_CleanEnd ==
  /\ []((/\ pc = "idle" /\ op = "Scan" /\ verdict.atEOF /\ verdict.err = Nil
         /\ verdict.hint = 0 /\ verdict.advance = 0 /\ verdict.token = NilTok)
        => (ret = "false" /\ Err(err) = Nil))
  /\ []((reader = "strings" /\ split = "commaSplit" /\ text = CommaText /\ stopped)
        => out = <<Tok(<<49>>), Tok(<<50>>), Tok(<<51>>)>>)

\* C9: when the hint of the split function makes end + hint exceed maxBuffer,
\* err becomes ErrTooLong and Scan returns false; no Scan call returns true
\* once err is ErrTooLong.
C9_TooLongStops ==
  /\ [][(/\ pc = "split" /\ err = Nil /\ verdict'.err = Nil /\ verdict'.advance = 0
         /\ empties' <= maxConsecutiveIdling
         /\ verdict'.hint >= 0 /\ verdict'.hint > maxBuffer - end')
        => (err' = ErrTooLong /\ ret' = "false")]_vars
  /\ [][(err = ErrTooLong /\ ScanReturns) => ret' = "false"]_vars

\* C10: ErrTooLong is recorded only when the unconsumed bytes plus the hint
\* exceed maxBuffer.
C10_FitsIsAccepted ==
  [][(err # ErrTooLong /\ err' = ErrTooLong)
     => verdict'.hint > maxBuffer - (end' - start')]_vars

\* C11: in every state 0 <= start <= end <= len(buffer), whatever the split
\* function returns and whatever counts the reader reports.
C11_Offsets == 0 <= start /\ start <= end /\ end <= Len(buffer)

\* C12: in every state end <= maxBuffer (the default cap when none is set),
\* also with a buffer given to WithBuffer and a reader that misreports its
\* counts.
C12_EndWithinMax ==
  end <= (IF maxBuffer = 0 THEN maxBufferDefault ELSE maxBuffer)

\* the outcome of the Scan calls up to the first false (the tokens and Err())
\* with the split function sp, no cap in reach and a reader that fills the
\* whole region on each read: win is the window buffer[start:end], rest the
\* input not read yet, e the sticky error, toks the tokens delivered so far
RECURSIVE FullRun(_, _, _, _, _)
FullRun(sp, win, rest, e, toks) ==
  LET v == CHOOSE x \in Split(sp, win, e = EOF) : TRUE
      aerr == advance(0, Len(win), v.advance)
      win1 == SubSeq(win, v.advance + 1, Len(win))
      m == Min(v.hint, Len(rest))
  IN IF v.err # Nil
     THEN [out |-> IF v.err = FinalToken THEN Append(toks, v.token) ELSE toks,
           err |-> Err(setErr(e, v.err))]
     ELSE IF aerr # Nil THEN [out |-> toks, err |-> Err(setErr(e, aerr))]
     ELSE IF v.token # NilTok /\ v.advance > 0
          THEN FullRun(sp, win1, rest, e, Append(toks, v.token))
     ELSE IF e # Nil THEN [out |-> toks, err |-> Err(e)]
     ELSE IF v.hint < 0 THEN [out |-> toks, err |-> ErrNegativeHint]
     ELSE IF v.hint = 0 /\ v.advance = 0 THEN [out |-> toks, err |-> ErrNoProgress]
     ELSE IF v.hint = 0 THEN FullRun(sp, win1, rest, e, toks)
     ELSE IF rest = <<>> THEN FullRun(sp, win1, rest, EOF, toks)
     ELSE FullRun(sp, win1 \o SubSeq(rest, 1, m), SubSeq(rest, m + 1, Len(rest)), e, toks)

\* the Scan call that returns the first false, with a deterministic split
\* function of SplitSet and a reader that hands out the input in chunks of any
\* size, leaves the tokens and the Err() of the run in which every read fills
\* the whole region
SameAsFullRun(SplitSet) ==
  (/\ reader \in {"strings", "slowReader"} /\ split \in SplitSet
   /\ maxBuffer = maxBufferDefault /\ ~stopped /\ stopped')
  => (/\ out' = FullRun(split, <<>>, text, Nil, <<>>).out
      /\ Err(err') = FullRun(split, <<>>, text, Nil, <<>>).err
      /\ ret' = "false")

\* C13 as stated: for a fixed input and any deterministic split function, the
\* tokens delivered, the final false and Err() are the same with one byte for
\* each read, with any other chunking and with reads that fill the region.
C13_AnyChunking == [][SameAsFullRun((Splits \ {"custom"}) \cup DetSplits)]_vars

\* C13 amended: the same for a deterministic split function whose verdict on
\* a window that holds a whole token does not change when the window grows
\* (ScanBytes, ScanLines, commaSplit, lineSplit2), below the cap of the buffer.
C13_ChunkingOfStableSplit ==
  [][SameAsFullRun((Splits \ {"custom"}) \cup {"lineSplit2"})]_vars

\* the slowReader run of lineSplit2 over an empty line and a line of 2 bytes
C13_Witness ==
  /\ reader = "slowReader" /\ split = "lineSplit2" /\ stopped
  /\ maxBuffer = maxBufferDefault
  /\ text = <<10, 97, 97>>
  /\ out = <<Tok(<<>>), Tok(<<97, 97>>)>>

\* C14: a read that reports a negative count, or a count larger than the
\* region buffer[end:claim] it was given, sets err to ErrBadReadCount and
\* leaves end unchanged, also when it reports io.EOF or an error.
C14_BadReadCount ==
  [][(pc = "read" /\ (lastRead'.n < 0 \/ lastRead'.n > lastRead'.len))
     => (err' = ErrBadReadCount /\ end' = end)]_vars

\* C15: with the endlessZeros reader and ScanLines no Scan call returns true;
\* every read adds one to the idle counter, and the first Scan call returns
\* false with io.ErrNoProgress after at most maxConsecutiveIdling + 1 reads
\* (the counter starts at 1, from the first call of ScanLines, and the
\* last call of ScanLines adds one more); the call does return.
C15_EndlessZeros ==
  /\ []((reader = "endlessZeros" /\ split = "ScanLines") => (ret # "true" /\ out = <<>>))
  /\ [][(reader = "endlessZeros" /\ split = "ScanLines" /\ pc = "read")
        => (empties' = empties + 1 /\ end' = end)]_vars
  /\ [][(reader = "endlessZeros" /\ split = "ScanLines" /\ ~stopped /\ stopped')
        => (/\ ret' = "false" /\ err' = IoErrNoProgress
            /\ empties' - 2 <= maxConsecutiveIdling + 1)]_vars
  /\ ((reader = "endlessZeros" /\ split = "ScanLines" /\ pc = "split") ~> stopped)

C15_Witness ==
  /\ reader = "endlessZeros" /\ split = "ScanLines" /\ stopped
  /\ op = "Err" /\ ret = IoErrNoProgress
  /\ lastRead = [len |-> 1, n |-> 0, err |-> Nil]

\* the split function, called after io.EOF, returns hint 0 and advance 0
\* without an error in this step
IdleAtEOF ==
  /\ pc = "split" /\ pc' # "panic" /\ err = EOF
  /\ verdict'.atEOF /\ verdict'.err = Nil /\ verdict'.hint = 0 /\ verdict'.advance = 0

\* C16 as stated: a split function that returns hint 0 and advance 0 when it
\* is called after the end of the input makes Scan return false with
\* ErrNoProgress.
C16_NoProgressAtEOF ==
  [][IdleAtEOF => (pc' = "idle" /\ ret' = "false" /\ err' = ErrNoProgress)]_vars

\* C16 amended: such a verdict makes Scan return false in the same round,
\* without a read and without a token; err stays io.EOF (Err() is nil) unless
\* this round takes the idle counter past maxConsecutiveIdling, and is
\* ErrNoProgress then.
C16_IdleAtEOFReturns ==
  [][IdleAtEOF
     => (/\ pc' = "idle" /\ ret' = "false" /\ out' = out
         /\ empties' = empties + 1
         /\ err' = IF empties' > maxConsecutiveIdling THEN ErrNoProgress ELSE EOF)]_vars

C16_Witness ==
  /\ pc = "idle" /\ op = "Scan" /\ ret = "false" /\ err = EOF /\ empties > 1
  /\ verdict.atEOF /\ verdict.err = Nil /\ verdict.hint = 0 /\ verdict.advance = 0
  /\ verdict.token # NilTok

\* the split function, called while err is nil, returns hint 0 and advance 0
\* without an error in this step
IdleBeforeEOF ==
  /\ pc = "split" /\ pc' # "panic" /\ err = Nil
  /\ verdict'.err = Nil /\ verdict'.hint = 0 /\ verdict'.advance = 0

\* C17: while err is nil, each round in which the split function returns hint
\* 0 and advance 0 adds one to the idle counter, issues no read and delivers
\* no token (also when the verdict carries a token); Scan goes on calling the
\* split function until the counter exceeds maxConsecutiveIdling and returns
\* false with ErrNoProgress then.
C17_IdleBeforeEOF ==
  [][IdleBeforeEOF
     => (/\ empties' = empties + 1 /\ out' = out
         /\ pc' # "read" /\ input' = input /\ lastRead' = lastRead
         /\ IF empties' > maxConsecutiveIdling
            THEN pc' = "idle" /\ ret' = "false" /\ err' = ErrNoProgress
            ELSE pc' = "split" /\ err' = Nil)]_vars

\* C18: a verdict with a token and advance > 0 is progress also when the token
\* is empty: the Scan call returns true with this token, the idle counter is
\* 0 and err is not touched; ScanLines over more blank lines than
\* maxConsecutiveIdling delivers an empty token for each, and the first Scan
\* call that returns false leaves Err() nil.
C18_EmptyTokensAreProgress ==
  /\ [][(/\ pc = "split" /\ pc' # "panic"
         /\ verdict'.err = Nil /\ verdict'.token # NilTok /\ verdict'.advance > 0
         /\ advance(start, end, verdict'.advance) = Nil)
        => (/\ pc' = "idle" /\ ret' = "true" /\ token' = verdict'.token
            /\ empties' = 0 /\ err' = err)]_vars
  /\ [][(reader = "strings" /\ split = "ScanLines" /\ text = BlankLines
         /\ ~stopped /\ stopped')
        => (/\ out' = [i \in 1..Len(BlankLines) |-> Tok(<<>>)]
            /\ ret' = "false" /\ Err(err') = Nil)]_vars

C18_Witness ==
  /\ reader = "strings" /\ split = "ScanLines" /\ text = BlankLines /\ stopped
  /\ Len(out) > maxConsecutiveIdling
  /\ \A i \in 1..Len(out) : out[i] = Tok(<<>>)
  /\ op = "Err" /\ ret = Nil

\* C19: when the split function returns, without an error, a negative advance
\* or an advance with start + advance > end, ErrNegativeAdvance or
\* ErrAdvanceTooFar goes to the sticky slot (which keeps an error it already
\* holds), Scan returns false, and start and end do not change.
C19_BadAdvance ==
  [][(/\ pc = "split" /\ pc' # "panic" /\ verdict'.err = Nil
      /\ (verdict'.advance < 0 \/ verdict'.advance > end - start))
     => (/\ err' = setErr(err, IF verdict'.advance < 0 THEN ErrNegativeAdvance
                                ELSE ErrAdvanceTooFar)
         /\ pc' = "idle" /\ ret' = "false"
         /\ start' = start /\ end' = end)]_vars

\* the split function returns a negative hint without an error in this step
NegativeHintVerdict ==
  pc = "split" /\ pc' # "panic" /\ verdict'.err = Nil /\ verdict'.hint < 0

\* C20 as stated: whenever the split function returns a negative hint without
\* an error, ErrNegativeHint goes to the sticky slot and Scan returns false
\* without a read and without a token.
C20_NegativeHintAlways ==
  [][NegativeHintVerdict
     => (/\ err' = setErr(err, ErrNegativeHint)
         /\ pc' = "idle" /\ ret' = "false"
         /\ out' = out /\ input' = input /\ lastRead' = lastRead)]_vars

\* C20 amended: the same in the rounds that reach the validation of the hint:
\* the advance is accepted, the verdict delivers no token, the idle counter
\* does not pass maxConsecutiveIdling and err is nil.
C20_NegativeHintValidated ==
  [][(/\ NegativeHintVerdict
      /\ advance(start, end, verdict'.advance) = Nil
      /\ ~delivers(verdict'.token, verdict'.advance)
      /\ (verdict'.advance > 0 \/ empties + 1 <= maxConsecutiveIdling)
      /\ err = Nil)
     => (/\ err' = ErrNegativeHint
         /\ pc' = "idle" /\ ret' = "false"
         /\ out' = out /\ input' = input /\ lastRead' = lastRead)]_vars

C20_Witness ==
  /\ pc = "idle" /\ op = "Scan" /\ ret = "false" /\ err = ErrNegativeHint
  /\ verdict.err = Nil /\ verdict.hint < 0 /\ verdict.advance = 0
  /\ verdict.token # NilTok /\ out = <<>>

\* the split function returns an error other than FinalToken in this step
SplitError ==
  pc = "split" /\ pc' # "panic" /\ verdict'.err \notin {Nil, FinalToken}

\* what a Scan call that ends on a verdict leaves alone: start, end, the
\* reader and the tokens delivered so far
NothingConsumed ==
  /\ start' = start /\ end' = end
  /\ input' = input /\ lastRead' = lastRead /\ out' = out

\* C21 as stated: when the split function returns an error other than
\* FinalToken (in a Scan call before the first false), Scan returns false,
\* Err() is that error, start and end are unchanged, no read is issued and
\* no token is added.
C21_SplitErrorShown ==
  [][(SplitError /\ ~stopped)
     => (/\ pc' = "idle" /\ ret' = "false" /\ Err(err') = verdict'.err
         /\ NothingConsumed)]_vars

\* C21 amended: the same, but the error goes to the first-write-wins slot:
\* Err() is that error when the slot held nil or io.EOF, and the error the
\* slot already held otherwise; an io.EOF that the split function returns as
\* its error is shown by Err() as nil.
C21_SplitErrorRecorded ==
  [][SplitError
     => (/\ pc' = "idle" /\ ret' = "false"
         /\ err' = (IF err \in {Nil, EOF} THEN verdict'.err ELSE err)
         /\ Err(err') = (IF err' = EOF THEN Nil ELSE err')
         /\ NothingConsumed)]_vars

C21_Witness ==
  /\ pc = "idle" /\ op = "Scan" /\ ret = "false"
  /\ verdict.err = testError /\ err = testError
  /\ verdict.advance = 1 /\ verdict.hint = 1 /\ start = 1 /\ end = 2
  /\ Len(out) = 1

\* C22: an error that the split function returns when it is called with
\* atEOF (err holds io.EOF) replaces io.EOF in err, and Err() returns this
\* error, not nil (FinalToken and io.EOF, which Err() shows as nil, replace
\* it too when the split function returns them).
C22_ErrorAtEOF ==
  [][(/\ pc = "split" /\ pc' # "panic" /\ err = EOF
      /\ verdict'.atEOF /\ verdict'.err # Nil)
     => (/\ err' = verdict'.err
         /\ verdict'.err \notin {FinalToken, EOF}
              => (Err(err') = verdict'.err /\ Err(err') # Nil)
         /\ pc' = "idle")]_vars

C22_Witness ==
  /\ pc = "idle" /\ op = "Err" /\ ret = testError /\ err = testError
  /\ verdict.atEOF /\ verdict.err = testError
  /\ lastRead.err = EOF

\* a read returns in this step
ReadReturns == pc = "read"

\* the count of the last read is one the engine accepts
CountAccepted(r) == 0 <= r.n /\ r.n <= Len(buffer) - end

\* C23 as stated: a read that returns an error other than io.EOF ends the
\* refill and err becomes that error; a read that returns io.EOF ends the
\* refill and err becomes io.EOF, which Err() shows as nil.
C23_ReadErrorAlways ==
  [][(ReadReturns /\ lastRead'.err # Nil)
     => (pc' = "split" /\ err' = lastRead'.err
         /\ Err(err') = (IF lastRead'.err = EOF THEN Nil ELSE lastRead'.err))]_vars

\* C23 amended: the same for a read whose count the engine accepts; the
\* error other than io.EOF is still in err, and shown by Err(), when the
\* Scan call has returned.
C23_ReadError ==
  /\ [][(ReadReturns /\ lastRead'.err # Nil /\ CountAccepted(lastRead'))
        => (pc' = "split" /\ err' = lastRead'.err /\ end' = end + lastRead'.n
            /\ Err(err') = (IF lastRead'.err = EOF THEN Nil ELSE lastRead'.err))]_vars
  /\ []((/\ lastRead.err \notin {"none", Nil, EOF}
         /\ 0 <= lastRead.n /\ err # ErrBadReadCount)
        => (err = lastRead.err /\ Err(err) = lastRead.err))

C23_Witness ==
  /\ pc = "idle" /\ op = "Err" /\ ret = IoErrUnexpectedEOF /\ stopped
  /\ lastRead.err = IoErrUnexpectedEOF /\ lastRead.n = 1


\* a scanner that New has returned and whose scanning is not over
Scanning(i) == live[i].made /\ ~live[i].over

\* no two such scanners have their buffers in the same array
NoSharedArray ==
  \A i, j \in Scanners :
    (i # j /\ Scanning(i) /\ Scanning(j) /\ live[i].arr # 0) => live[i].arr # live[j].arr

\* the bytes a scanner has read are still in its buffer
WindowsIntact ==
  \A i \in Scanners :
    Scanning(i) => \A k \in 1..live[i].end : heap[live[i].arr][k] = i

\* C24: each scanner exclusively owns its buffer: across every interleaving
\* of New and Scan calls on different scanners, growing and the hand-over to
\* the pool included, no two live scanners share backing storage, and the
\* unconsumed window of one is never overwritten by what another does.
C24_ExclusiveBuffers == NoSharedArray /\ WindowsIntact


\* a Scan call is running
InScan == pc \in {"split", "read"}

\* a running Scan call comes to its end, by a return or by a run-time panic
ScanEnds == InScan ~> (pc \in {"idle", "panic"})

\* a run-time panic is the slicing of the buffer at a start that has wrapped
\* below 0, after an accepted advance that made start + advance wrap
PanicOnlyByWrap == pc = "panic" => start < 0

\* C25: every Scan call returns after finitely many calls of the split
\* function and reads, whatever the split function returns, with a source that
\* in the end reports io.EOF or only reads of no byte.
C25_ScanReturns == InScan ~> (pc = "idle")


\* s without one carriage return at its end
WithoutCR(s) == IF s # <<>> /\ s[Len(s)] = 13 THEN SubSeq(s, 1, Len(s) - 1) ELSE s

\* the lines of data: what stands before each newline, and what stands after
\* the last one when that is not empty, each without one carriage return at
\* its end
RECURSIVE Lines(_)
Lines(data) ==
  IF data = <<>> THEN <<>>
  ELSE IF \E i \in 1..Len(data) : data[i] = 10
       THEN LET i == CHOOSE k \in 1..Len(data) :
                       data[k] = 10 /\ \A j \in 1..(k - 1) : data[j] # 10
            IN <<Tok(WithoutCR(SubSeq(data, 1, i - 1)))>>
               \o Lines(SubSeq(data, i + 1, Len(data)))
       ELSE <<Tok(WithoutCR(data))>>

WhiteSpace == 9..13 \cup {32, 133, 160, 5760} \cup 8192..8202 \cup {8232, 8233, 8239, 8287, 12288}

\* strings.Fields: the maximal runs of characters of data that are no white
\* space, after the run cur that has been gathered
RECURSIVE Fields(_, _)
Fields(data, cur) ==
  LET word == IF cur = <<>> THEN <<>> ELSE <<Tok(cur)>> IN
  IF data = <<>> THEN word
  ELSE LET d == DecodeRune(data)
           rest == SubSeq(data, d.width + 1, Len(data))
       IN IF d.r \in WhiteSpace THEN word \o Fields(rest, <<>>)
          ELSE Fields(rest, cur \o SubSeq(data, 1, d.width))

TokenVerdict == verdict'.err = Nil /\ verdict'.token # NilTok /\ verdict'.advance > 0

\* start has moved forward by exactly the advance of the verdict
StartAdvanced == start' >= start /\ start' - start = verdict'.advance

\* C28: Scan returns true in exactly two cases: the split function returned
\* no error, a token and advance > 0, and then start has moved forward by
\* exactly advance and the idle counter is 0; or it returned FinalToken.  A
\* token returned with advance = 0 and no error is not delivered.
C28_TrueCases ==
  [][(/\ (ScanReturns /\ ret' = "true")
           => (pc = "split" /\ (TokenVerdict \/ verdict'.err = FinalToken))
      /\ (pc = "split" /\ pc' # "panic" /\ verdict'.err = FinalToken)
           => (pc' = "idle" /\ ret' = "true")
      /\ (ScanReturns /\ ret' = "true" /\ TokenVerdict)
           => (StartAdvanced /\ empties' = 0)
      /\ (/\ pc = "split" /\ pc' # "panic" /\ verdict'.err = Nil
          /\ verdict'.token # NilTok /\ verdict'.advance = 0)
           => (~(pc' = "idle" /\ ret' = "true") /\ out' = out))]_vars


\* the split function has just made a pure skip: an accepted advance > 0, no
\* token, no error
PureSkip ==
  /\ pc = "split" /\ pc' # "panic"
  /\ verdict'.err = Nil /\ verdict'.token = NilTok /\ verdict'.advance > 0
  /\ advance(start, end, verdict'.advance) = Nil

\* this step issues no read and leaves Scan at the next call of the split
\* function
BackToSplit == pc' = "split" /\ input' = input /\ lastRead' = lastRead

\* C29: after a pure skip that leaves a window that is not empty the split
\* function is called again without a read; a read follows a pure skip only
\* when the window has become empty.
C29_SkipThenSplit ==
  [][PureSkip => (/\ start' < end' => BackToSplit
                  /\ pc' = "read" => start' = end')]_vars

\* C29, as the code has it: after a pure skip with hint = 0 that passes the
\* validation of the hint, made while the slot is nil, the split function is
\* called again without a read, whether the window is empty or not; a read
\* follows a pure skip only when the slot is nil and the hint of the skip is
\* positive; with the slot set the call returns false after the skip.
C29_SkipThenHint ==
  [][PureSkip => (/\ (/\ err = Nil /\ verdict'.hint = 0
                      /\ hint(end', maxBuffer, verdict'.hint) = Nil) => BackToSplit
                  /\ pc' = "read" => (err = Nil /\ verdict'.hint > 0)
                  /\ err # Nil => (pc' = "idle" /\ ret' = "false"))]_vars

\* a read is about to follow a pure skip that has left a window of one byte
C29_Witness ==
  /\ pc = "read" /\ claim > end
  /\ verdict.err = Nil /\ verdict.token = NilTok /\ verdict.advance > 0 /\ verdict.hint > 0
  /\ start < end


\* C30: once the sticky slot is not nil (io.EOF, FinalToken or an error) no
\* read is issued to the source: a Scan call is not in the read loop and does
\* not enter it, and the reader hands out nothing.
C30_NoReadOnceSet ==
  [][err # Nil => (pc # "read" /\ pc' # "read" /\ input' = input)]_vars

\* with an error of a read in the slot the split function has asked for one
\* more byte, and the Scan call has returned false
C30_Witness ==
  /\ pc = "idle" /\ op = "Scan" /\ ret = "false"
  /\ err = IoErrUnexpectedEOF /\ lastRead.err = IoErrUnexpectedEOF
  /\ verdict.err = Nil /\ verdict.hint > 0 /\ verdict.advance = 0


\* the split function is called in this step
SplitCalled == pc = "split" /\ pc' # "panic"

\* what C31 says of a call of the split function: the window passed is
\* buffer[start:end] (seen in the verdict of a reference split function), and
\* the flag is true exactly when a read has reported io.EOF and the slot
\* holds io.EOF
FlagOfSourceEOF ==
  SplitCalled
    => (/\ verdict'.atEOF = (eofSeen /\ err = EOF)
        /\ split # "custom"
             => \E v \in Split(split, SubSeq(buffer, start + 1, end), err = EOF) :
                  /\ verdict'.hint = v.hint /\ verdict'.advance = v.advance
                  /\ verdict'.token = v.token /\ verdict'.err = v.err)

\* an error of the source that has reached the slot stays there: no later
\* call of the split function has the flag
NoFlagAfterError ==
  (err \notin {Nil, EOF}) => (err' = err /\ (SplitCalled => ~verdict'.atEOF))

\* C31: at every call of the split function the window passed is
\* buffer[start:end], and atEOF is true if and only if the source has reported
\* io.EOF at an earlier read and the slot still holds io.EOF; atEOF is false
\* at every call that follows an error of the source.
C31_FlagIffSourceEOF == [][FlagOfSourceEOF /\ NoFlagAfterError]_vars

\* the same in the Scan calls up to the first one that returns false
FlagBeforeFirstFalse == [][~stopped => (FlagOfSourceEOF /\ NoFlagAfterError)]_vars


\* where start stands once the verdict of this step has been taken in: moved
\* by the advance when the verdict has no error and the advance is accepted
AfterAdvance ==
  IF verdict'.err = Nil /\ advance(start, end, verdict'.advance) = Nil
  THEN AddInt(start, verdict'.advance)
  ELSE start

\* the condition of compaction as C32 states it, on the offsets st and end
CompactionDue(st) == st > 0 /\ (end = Len(buffer) \/ st > Len(buffer) \div 2)

\* this step has moved buffer[st:end] to offset 0, in order, and left the rest
\* of the buffer as it was
Compacted(st) ==
  /\ start' = 0
  /\ end' = end - st
  /\ \A i \in 1..(end - st) : buffer'[i] = buffer[st + i]
  /\ \A i \in (end - st + 1)..Len(buffer) : buffer'[i] = buffer[i]

\* this step has left the offsets and the bytes of the buffer as the verdict
\* left them
NotCompacted(st) ==
  /\ start' = st
  /\ end' = end
  /\ \A i \in 1..Len(buffer) : buffer'[i] = buffer[i]

\* the verdict of this step delivers no token
NoDelivery == SplitCalled /\ ~(pc' = "idle" /\ ret' = "true")

\* the verdict of this step lets the loop go on to the compaction: no error,
\* an accepted advance, no token delivered, the idle ceiling not crossed and
\* an empty slot
GoesOn ==
  /\ NoDelivery
  /\ verdict'.err = Nil
  /\ advance(start, end, verdict'.advance) = Nil
  /\ ~(pc' = "idle" /\ err' = ErrNoProgress)
  /\ err = Nil

\* C32: compaction is done exactly when, after a verdict that delivers no
\* token, start > 0 and (end = len(buffer) or start > len(buffer)/2); it moves
\* buffer[start:end] to offset 0 unchanged and in order, sets end to
\* end - start and start to 0, and changes neither len(buffer), the slot nor
\* the idle counter.
C32_CompactionExactly ==
  [][NoDelivery
     => (/\ CompactionDue(AfterAdvance) <=> (AfterAdvance > 0 /\ Compacted(AfterAdvance))
         /\ ~CompactionDue(AfterAdvance) => NotCompacted(AfterAdvance))]_vars

\* C32, as the code has it: the same after a verdict that lets the loop go on
\* (no error, an accepted advance, the idle ceiling not crossed, an empty
\* slot); after any other verdict that delivers no token there is no
\* compaction.  Compaction itself changes neither len(buffer), the slot nor
\* the idle counter: after it the buffer is only lengthened by the growth to
\* the claim, the slot only written by the validation of the hint, and the
\* idle counter is what the verdict made it.
C32_CompactionWhenGoingOn ==
  [][NoDelivery
     => IF GoesOn /\ CompactionDue(AfterAdvance)
        THEN /\ Compacted(AfterAdvance)
             /\ Len(buffer') >= Len(buffer)
             /\ Len(buffer') > Len(buffer) => (pc' = "read" /\ Len(buffer') = claim')
             /\ err' # err => (pc' = "idle" /\ err' \in {ErrNegativeHint, ErrTooLong})
             /\ empties' = (IF verdict'.advance > 0 THEN 0 ELSE empties + 1)
        ELSE NotCompacted(AfterAdvance)]_vars


\* bytes have been consumed, the rest of the window has been moved to offset
\* 0 and a read is about to follow: the window is the part of the text behind
\* the consumed bytes
C32_Witness ==
  /\ reader \in {"strings", "slowReader"} /\ split # "custom"
  /\ pc = "read" /\ verdict.err = Nil /\ verdict.token = NilTok
  /\ start = 0 /\ end >= 1
  /\ Len(text) - Len(input) - end >= 1
  /\ SubSeq(buffer, 1, end) = SubSeq(text, Len(text) - Len(input) - end + 1, Len(text) - Len(input))
  /\ buffer[1] # text[1]


\* the refill begins in this step: the region to fill is buffer[end:claim]
\* with claim = end + hint
RefillBegins == pc = "split" /\ pc' = "read"

\* a read of this step has added bytes to the window
BytesRead == pc = "read" /\ end' > end

\* the refill asks for buffer[end:claim] with claim = end + hint
RegionIsTheClaim ==
  /\ RefillBegins => (verdict'.hint > 0 /\ claim' = end' + verdict'.hint)
  /\ ReadReturns => lastRead'.len = claim - end

\* the first read that adds bytes ends the refill and sets the idle counter
\* to 0
FirstBytesEndRefill == BytesRead => (pc' = "split" /\ empties' = 0)

\* a read leaves end within the claim
EndWithinClaim == ReadReturns => end' <= claim

\* C33: the refill asks the source to fill exactly buffer[end:claim] with
\* claim = end + hint and stops after the first read that returns at least
\* one byte: between two calls of the split function there is at most one
\* such read, it sets the idle counter to 0, and end never exceeds claim.
C33_Refill == [][RegionIsTheClaim /\ FirstBytesEndRefill /\ EndWithinClaim]_vars

\* the three parts of it, one by one
RefillRegion == [][RegionIsTheClaim]_vars

RefillFirstBytes == [][FirstBytesEndRefill]_vars

RefillEndWithinClaim == [][EndWithinClaim]_vars

\* the same with the reader that keeps the contract of io.Reader
RefillOfStringsReader ==
  [][(reader \in {"strings", "slowReader"})
     => (RegionIsTheClaim /\ FirstBytesEndRefill /\ EndWithinClaim)]_vars

\* the split function returns, without an error, a non-negative advance for
\* which start + advance passes maxInt
AdvanceWraps ==
  /\ pc = "split" /\ pc' # "panic" /\ verdict'.err = Nil
  /\ verdict'.advance >= 0 /\ start > 0 /\ verdict'.advance > maxInt - start

\* the round reaches the validation of the hint with a non-negative hint for
\* which end + hint passes maxInt; end' is the end the hint is added to, after
\* the compaction
HintWraps ==
  /\ pc = "split" /\ pc' # "panic" /\ verdict'.err = Nil
  /\ verdict'.advance >= 0 /\ verdict'.advance <= end - start
  /\ ~delivers(verdict'.token, verdict'.advance)
  /\ (verdict'.advance > 0 \/ empties + 1 <= maxConsecutiveIdling)
  /\ err = Nil
  /\ verdict'.hint >= 0 /\ end' > 0 /\ verdict'.hint > maxInt - end'

\* C34 (advance): a non-negative advance for which start + advance wraps
\* records ErrAdvanceTooFar, Scan returns false and start stays
AdvanceOverflowRefused ==
  [][AdvanceWraps
     => (/\ err' = setErr(err, ErrAdvanceTooFar)
         /\ pc' = "idle" /\ ret' = "false" /\ start' = start)]_vars

\* C34 (hint): a non-negative hint for which end + hint wraps records
\* ErrTooLong and Scan returns false
HintOverflowRefused ==
  [][HintWraps => (err' = ErrTooLong /\ pc' = "idle" /\ ret' = "false")]_vars

\* C34: the bounds checks are overflow-safe: a non-negative hint for which
\* end + hint wraps past maxInt records ErrTooLong, a non-negative advance for
\* which start + advance wraps records ErrAdvanceTooFar, and Scan returns false
\* on either: such a verdict is never accepted.
C34_OverflowSafe ==
  [][/\ AdvanceWraps
          => (/\ err' = setErr(err, ErrAdvanceTooFar)
              /\ pc' = "idle" /\ ret' = "false" /\ start' = start)
     /\ HintWraps => (err' = ErrTooLong /\ pc' = "idle" /\ ret' = "false")]_vars

\* the verdicts that do not wrap are judged as the claim says: an advance
\* beyond the window is refused, a hint beyond the cap is refused
NoWrapRefused ==
  [][(/\ pc = "split" /\ pc' # "panic" /\ verdict'.err = Nil
      /\ verdict'.advance > end - start /\ verdict'.advance <= maxInt - start)
     => (err' = setErr(err, ErrAdvanceTooFar) /\ pc' = "idle" /\ ret' = "false")]_vars

\* the number of bytes the source has handed out so far
Streamed == Len(text) - Len(input)

\* the source reports the count of the bytes it wrote: strings.Reader,
\* slowReader, endlessZeros
CorrectCounts == reader # "any"

\* the offsets denote a window, and the window is the end of what the source
\* has handed out: the bytes before it are the consumed ones
WindowIsStreamSegment ==
  /\ 0 <= start /\ start <= end /\ end <= Len(buffer)
  /\ end - start <= Streamed
  /\ SubSeq(buffer, start + 1, end) = SubSeq(text, Streamed - (end - start) + 1, Streamed)

\* the number of consumed bytes, the stream's bytes before the window, grows
\* by the advance of an accepted verdict and by nothing else
ConsumedByAdvance ==
  (0 <= start /\ start <= end /\ 0 <= start' /\ start' <= end')
    => (Streamed' - (end' - start')) - (Streamed - (end - start))
         = (IF /\ pc = "split" /\ pc' # "panic" /\ verdict'.err = Nil
               /\ advance(start, end, verdict'.advance) = Nil
            THEN verdict'.advance ELSE 0)

\* C35: with a source that reports correct byte counts the window
\* buffer[start:end] is in every state the contiguous segment of the stream
\* that starts right after the last consumed byte: compaction, growth and
\* refill never duplicate, drop, reorder or replace bytes.
C35_WindowIsStream ==
  /\ [](CorrectCounts => WindowIsStreamSegment)
  /\ [][CorrectCounts => ConsumedByAdvance]_vars

\* the same in every state whose start has not wrapped below 0
WindowUnlessWrapped ==
  /\ []((CorrectCounts /\ start >= 0) => WindowIsStreamSegment)
  /\ [][CorrectCounts => ConsumedByAdvance]_vars

\* the cap in force: maxBufferDefault until Scan has set it
MaxSize == IF maxBuffer = 0 THEN maxBufferDefault ELSE maxBuffer

\* the buffer never shrinks, and it grows only in the round of a verdict
\* whose claim passed the validation of the hint, to that claim
GrowsToValidClaim ==
  /\ Len(buffer') >= Len(buffer)
  /\ Len(buffer') > Len(buffer)
       => (/\ pc = "split" /\ pc' = "read"
           /\ hint(end', maxBuffer, verdict'.hint) = Nil
           /\ Len(buffer') = end' + verdict'.hint
           /\ Len(buffer') <= MaxSize)

\* C36: in every reachable state len(buffer) <= max(initial length of the
\* buffer, maxSize), whatever the number of bytes streamed: the buffer only
\* grows to a claim that passed the validation of the hint.
C36_BufferBounded ==
  /\ [](Len(buffer) <= (IF initLen > MaxSize THEN initLen ELSE MaxSize))
  /\ [][GrowsToValidClaim]_vars

\* a buffer that began empty has grown to the cap of 2 bytes, and the source
\* has streamed more bytes than it holds
C36_Witness ==
  /\ initLen = 0 /\ maxBuffer = 2 /\ Len(buffer) = 2 /\ Streamed = 3
  /\ pc = "idle" /\ op = "Scan"

\* C37: once Scan has returned false with Err() = nil (the clean end of the
\* input, or after the final token), Err() stays nil after any number of
\* further Scan calls.
C37_ErrStaysNil == [][(stopped /\ Err(err) = Nil) => Err(err') = Nil]_vars

\* the same after the final token: the entry of Scan returns before the split
\* function is called
ErrStaysNilAfterFinalToken ==
  [][(stopped /\ err = FinalToken) => err' = FinalToken]_vars

\* a Scan call of src/protoscan.go returns b in this step
AppendScanReturns(b) == pc # "idle" /\ pc' = "idle" /\ ret' = b

\* what the split function appends and returns for the window, called with
\* the end-of-input flag set
AtEOFAppended ==
  \E v \in SplitAppend(split, SubSeq(buffer, start + 1, end), TRUE) :
    /\ Tokens' = v.tokens /\ Indexes' = v.indexes
    /\ verdict'.hint = v.hint /\ verdict'.advance = v.advance /\ verdict'.err = v.err

====
